---- MODULE Spec2Model ----
(***************************************************************************)
(* A model of graph.py: the Graph class with its four indices (_nodes,     *)
(* _links, _node_links, _neighborhoods), the primitive mutations, and the  *)
(* live views that delegate to them.                                       *)
(*                                                                         *)
(* A Link is a frozenset of two distinct values; its left/right attributes *)
(* only fix the order in which its endpoints are visited.  The model keeps *)
(* a stored link as the two-element set and passes (left, right) to the    *)
(* operations that visit the endpoints in order.                           *)
(*                                                                         *)
(* The model also covers the setters of NodeView and of Graph.links, the   *)
(* membership test of LinksView, and minimal_spanning: the loop of         *)
(* _minimal_spanning_subgraph pass by pass, the MinimalSpanningSubgraph it *)
(* returns with its overridden mutators, and render_nodes_and_links.       *)
(* Where the code iterates over a set, an operator gives the set of the    *)
(* outcomes over the iteration orders.                                     *)
(***************************************************************************)
EXTENDS FiniteSets, Integers, Sequences, TLC

\* Number of distinct hashable values the callers draw nodes from.
MaxNodes == 3

Values == 1 .. MaxNodes

\* Placeholder for an argument an operation does not take.
None == 0

\* Number of distinct values the source graphs of minimal_spanning are built
\* from.
MaxSpanNodes == 4

SpanValues == 1 .. MaxSpanNodes

\* Length of the longest collection tested for membership in the links view.
MaxCandidateLen == 3

VARIABLES _nodes, _links, _node_links, _neighborhoods, op, err, pre,
          mss, arg, ret

vars == <<_nodes, _links, _node_links, _neighborhoods, op, err, pre,
          mss, arg, ret>>

\* What a call on the graph and its views leaves alone: the state of a
\* minimal_spanning computation, the collection argument of the last call
\* that has one, and the set of the values the last call can return over the
\* iteration orders (empty for a call that returns None).
aux == <<mss, arg, ret>>

\* The four indices of the graph as one value.
G == [nodes |-> _nodes, links |-> _links,
      node_links |-> _node_links, neighborhoods |-> _neighborhoods]

\* Graph(): the empty graph.
EmptyGraph == [nodes |-> {}, links |-> {},
               node_links |-> <<>>, neighborhoods |-> <<>>]

\* A call that returned normally, leaving the graph as g.
Ok(g) == [g |-> g, err |-> "none"]

\* A call that raised exception e, leaving the graph as g.
Raise(g, e) == [g |-> g, err |-> e]

\* mapping[key] = value on a dict.
SetItem(mapping, key, value) ==
    [k \in DOMAIN mapping \cup {key} |-> IF k = key THEN value ELSE mapping[k]]

\* mapping.pop(key, None) on a dict.
PopItem(mapping, key) ==
    [k \in DOMAIN mapping \ {key} |-> mapping[k]]

\* mapping.get(key, set()) on a dict of sets.
GetOrEmpty(mapping, key) ==
    IF key \in DOMAIN mapping THEN mapping[key] ELSE {}

\* Link(left, right): the frozenset of the two endpoints.
Link(left, right) == {left, right}

\* Link.__new__ raises TypeError unless the pair has two distinct members.
LinkIsValid(left, right) == Cardinality({left, right}) = 2

\* Graph.add
add(g, value) ==
    Ok([g EXCEPT !.nodes = @ \cup {value},
                 !.neighborhoods = SetItem(@, value, {value})])

\* _discard_and_del deleting the key although links remain under it.
discard_and_del_always(mapping, key, elem) ==
    PopItem(mapping, key)

\* _discard_and_del
_discard_and_del(mapping, key, elem) ==
    LET collection == GetOrEmpty(mapping, key) \ {elem}
    IN  IF collection = {}
        THEN PopItem(mapping, key)
        ELSE [mapping EXCEPT ![key] = collection]

\* add_link without its update of the right endpoint's neighborhood.
add_link_one_sided(g, left, right) ==
    IF ~LinkIsValid(left, right) THEN Raise(g, "TypeError")
    ELSE IF left \notin g.nodes \/ right \notin g.nodes
    THEN Raise(g, "ValueError")
    ELSE LET link == Link(left, right)
             nl1 == SetItem(g.node_links, left,
                            GetOrEmpty(g.node_links, left) \cup {link})
             nl2 == SetItem(nl1, right, GetOrEmpty(nl1, right) \cup {link})
             g1  == [g EXCEPT !.node_links = nl2]
         IN  IF left \notin DOMAIN g1.neighborhoods
             THEN Raise(g1, "KeyError")
             ELSE Ok([g1 EXCEPT !.neighborhoods[left] = @ \cup {right},
                                !.links = @ \cup {link}])

\* add_link looking only its left endpoint up in the node set.
add_link_checks_left(g, left, right) ==
    IF ~LinkIsValid(left, right) THEN Raise(g, "TypeError")
    ELSE IF left \notin g.nodes
    THEN Raise(g, "ValueError")
    ELSE LET link == Link(left, right)
             nl1 == SetItem(g.node_links, left,
                            GetOrEmpty(g.node_links, left) \cup {link})
             nl2 == SetItem(nl1, right, GetOrEmpty(nl1, right) \cup {link})
             g1  == [g EXCEPT !.node_links = nl2]
         IN  IF left \notin DOMAIN g1.neighborhoods
             THEN Raise(g1, "KeyError")
             ELSE LET g2 == [g1 EXCEPT !.neighborhoods[left] = @ \cup {right}]
                  IN  IF right \notin DOMAIN g2.neighborhoods
                      THEN Raise(g2, "KeyError")
                      ELSE Ok([g2 EXCEPT !.neighborhoods[right] = @ \cup {left},
                                         !.links = @ \cup {link}])

\* Graph.add_link
add_link(g, left, right) ==
    IF ~LinkIsValid(left, right) THEN Raise(g, "TypeError")
    ELSE IF left \notin g.nodes \/ right \notin g.nodes
    THEN Raise(g, "ValueError")
    ELSE LET link == Link(left, right)
             nl1 == SetItem(g.node_links, left,
                            GetOrEmpty(g.node_links, left) \cup {link})
             nl2 == SetItem(nl1, right, GetOrEmpty(nl1, right) \cup {link})
             g1  == [g EXCEPT !.node_links = nl2]
         IN  IF left \notin DOMAIN g1.neighborhoods
             THEN Raise(g1, "KeyError")
             ELSE LET g2 == [g1 EXCEPT !.neighborhoods[left] = @ \cup {right}]
                  IN  IF right \notin DOMAIN g2.neighborhoods
                      THEN Raise(g2, "KeyError")
                      ELSE Ok([g2 EXCEPT !.neighborhoods[right] = @ \cup {left},
                                         !.links = @ \cup {link}])

\* discard_link without its update of the right endpoint's neighborhood.
discard_link_one_sided(g, left, right) ==
    IF ~LinkIsValid(left, right) THEN Raise(g, "TypeError")
    ELSE LET link == Link(left, right)
             nl1 == _discard_and_del(g.node_links, left, link)
             nl2 == _discard_and_del(nl1, right, link)
             g1  == [g EXCEPT !.node_links = nl2]
         IN  IF left \notin DOMAIN g1.neighborhoods
             THEN Raise(g1, "KeyError")
             ELSE Ok([g1 EXCEPT !.neighborhoods[left] = @ \ {right},
                                !.links = @ \ {link}])

\* Graph.discard_link
discard_link(g, left, right) ==
    IF ~LinkIsValid(left, right) THEN Raise(g, "TypeError")
    ELSE LET link == Link(left, right)
             nl1 == _discard_and_del(g.node_links, left, link)
             nl2 == _discard_and_del(nl1, right, link)
             g1  == [g EXCEPT !.node_links = nl2]
         IN  IF left \notin DOMAIN g1.neighborhoods
             THEN Raise(g1, "KeyError")
             ELSE LET g2 == [g1 EXCEPT !.neighborhoods[left] = @ \ {right}]
                  IN  IF right \notin DOMAIN g2.neighborhoods
                      THEN Raise(g2, "KeyError")
                      ELSE Ok([g2 EXCEPT !.neighborhoods[right] = @ \ {left},
                                         !.links = @ \ {link}])

\* The two (left, right) orders in which a stored link can present its
\* endpoints.
Orientations(link) == {p \in link \X link : p[1] # p[2]}

\* The outcomes of calling discard_link on each link of S in turn, in any
\* iteration order and with either endpoint order, stopping at the first call
\* that raises.
RECURSIVE DiscardEach(_, _)
DiscardEach(g, S) ==
    IF S = {} THEN {Ok(g)}
    ELSE UNION {LET r == discard_link(g, p[1], p[2])
                IN  IF r.err # "none" THEN {r}
                    ELSE DiscardEach(r.g, S \ {Link(p[1], p[2])})
                : p \in UNION {Orientations(l) : l \in S}}

\* The end of Graph.discard without its del of the neighborhood entry.
discard_node_keeps_entry(g, value) ==
    Ok([g EXCEPT !.nodes = @ \ {value}])

\* What Graph.discard does once its loop over the incident links is over.
discard_node(g, value) ==
    LET g1 == [g EXCEPT !.nodes = @ \ {value}]
    IN  IF value \notin DOMAIN g1.neighborhoods
        THEN Raise(g1, "KeyError")
        ELSE Ok([g1 EXCEPT !.neighborhoods = PopItem(@, value)])

\* Graph.discard without its loop over the incident links.
discard_no_cascade(g, value) ==
    {discard_node(g, value)}

\* Graph.discard: the set of its outcomes over the iteration orders.
discard(g, value) ==
    {IF r.err # "none" THEN r ELSE discard_node(r.g, value)
     : r \in DiscardEach(g, GetOrEmpty(g.node_links, value))}

\* NodeLinksView._link_set
NodeLinksView(g, node) == GetOrEmpty(g.node_links, node)

\* NeighborhoodView._neighborhood
NeighborhoodView(g, node) == GetOrEmpty(g.neighborhoods, node)

\* LinksView.add
LinksView_add(g, left, right) == add_link(g, left, right)

\* LinksView.discard
LinksView_discard(g, left, right) == discard_link(g, left, right)

\* NodeLinksView.add
NodeLinksView_add(g, node, left, right) ==
    IF ~LinkIsValid(left, right) THEN Raise(g, "TypeError")
    ELSE IF node \notin Link(left, right) THEN Raise(g, "ValueError")
    ELSE add_link(g, left, right)

\* NodeLinksView.discard
NodeLinksView_discard(g, node, left, right) ==
    IF ~LinkIsValid(left, right) THEN Raise(g, "TypeError")
    ELSE IF Link(left, right) \notin NodeLinksView(g, node) THEN Ok(g)
    ELSE discard_link(g, left, right)

\* NeighborhoodView.add
NeighborhoodView_add(g, node, value) ==
    LET r == add(g, value)
    IN  IF node = value THEN r ELSE add_link(r.g, node, value)

\* NeighborhoodView.discard
NeighborhoodView_discard(g, node, value) ==
    IF node = value THEN Raise(g, "ValueError")
    ELSE discard_link(g, node, value)

\* NodeView.remove_self
remove_self(g, node) == discard(g, node)

\* NodeView.add_self
add_self(g, node) == add(g, node)

\* NodeView.link_node
link_node(g, node, other) == add_link(g, node, other)

\* NodeView.unlink_node
unlink_node(g, node, other) == discard_link(g, node, other)

----------------------------------------------------------------------------
\* The views call self.graph.add, .discard, .add_link and .discard_link on the
\* graph they were made for: the methods of Graph, or for a graph of class
\* "MinimalSpanningSubgraph" the overrides of that class.

\* MinimalSpanningSubgraph.add
MinimalSpanningSubgraph_add(g, value) == Raise(g, "TypeError")

\* MinimalSpanningSubgraph.discard
MinimalSpanningSubgraph_discard(g, value) == Raise(g, "TypeError")

\* MinimalSpanningSubgraph without its override of add_link: Graph.add_link
\* is inherited.
add_link_inherited(g, left, right) == add_link(g, left, right)

\* MinimalSpanningSubgraph.add_link
MinimalSpanningSubgraph_add_link(g, left, right) == Raise(g, "TypeError")

\* MinimalSpanningSubgraph.discard_link
MinimalSpanningSubgraph_discard_link(g, left, right) == Raise(g, "TypeError")

\* self.graph.add(value) on a graph of class cls
graph_add(cls, g, value) ==
    IF cls = "MinimalSpanningSubgraph"
    THEN MinimalSpanningSubgraph_add(g, value)
    ELSE add(g, value)

\* self.graph.discard(value) on a graph of class cls: the set of its outcomes.
graph_discard(cls, g, value) ==
    IF cls = "MinimalSpanningSubgraph"
    THEN {MinimalSpanningSubgraph_discard(g, value)}
    ELSE discard(g, value)

\* self.graph.add_link(link) on a graph of class cls
graph_add_link(cls, g, left, right) ==
    IF cls = "MinimalSpanningSubgraph"
    THEN MinimalSpanningSubgraph_add_link(g, left, right)
    ELSE add_link(g, left, right)

\* self.graph.discard_link(link) on a graph of class cls
graph_discard_link(cls, g, left, right) ==
    IF cls = "MinimalSpanningSubgraph"
    THEN MinimalSpanningSubgraph_discard_link(g, left, right)
    ELSE discard_link(g, left, right)

\* LinksView.add on a graph of class cls
LinksView_add_on(cls, g, left, right) ==
    graph_add_link(cls, g, left, right)

\* LinksView.discard on a graph of class cls
LinksView_discard_on(cls, g, left, right) ==
    graph_discard_link(cls, g, left, right)

\* NodeLinksView.add on a graph of class cls
NodeLinksView_add_on(cls, g, node, left, right) ==
    IF ~LinkIsValid(left, right) THEN Raise(g, "TypeError")
    ELSE IF node \notin Link(left, right) THEN Raise(g, "ValueError")
    ELSE graph_add_link(cls, g, left, right)

\* NodeLinksView.discard on a graph of class cls
NodeLinksView_discard_on(cls, g, node, left, right) ==
    IF ~LinkIsValid(left, right) THEN Raise(g, "TypeError")
    ELSE IF Link(left, right) \notin NodeLinksView(g, node) THEN Ok(g)
    ELSE graph_discard_link(cls, g, left, right)

\* NeighborhoodView.add on a graph of class cls
NeighborhoodView_add_on(cls, g, node, value) ==
    LET r == graph_add(cls, g, value)
    IN  IF r.err # "none" \/ node = value THEN r
        ELSE graph_add_link(cls, r.g, node, value)

\* NeighborhoodView.discard on a graph of class cls
NeighborhoodView_discard_on(cls, g, node, value) ==
    IF node = value THEN Raise(g, "ValueError")
    ELSE graph_discard_link(cls, g, node, value)

\* NodeView.remove_self on a graph of class cls
remove_self_on(cls, g, node) == graph_discard(cls, g, node)

\* NodeView.add_self on a graph of class cls
add_self_on(cls, g, node) == graph_add(cls, g, node)

\* NodeView.link_node on a graph of class cls
link_node_on(cls, g, node, other) ==
    IF ~LinkIsValid(node, other) THEN Raise(g, "TypeError")
    ELSE graph_add_link(cls, g, node, other)

\* NodeView.unlink_node on a graph of class cls
unlink_node_on(cls, g, node, other) ==
    IF ~LinkIsValid(node, other) THEN Raise(g, "TypeError")
    ELSE graph_discard_link(cls, g, node, other)

\* Link.__new__ given one argument, a collection whose elements are those of
\* the sequence c: the exception it raises, or "none".
Link_new(c) ==
    IF Cardinality({c[i] : i \in DOMAIN c}) # 2 THEN "TypeError" ELSE "none"

\* Link.__init__ given the same argument: self.left, self.right = args[0]
\* raises ValueError unless the collection has two elements.
Link_init(c) ==
    IF Len(c) # 2 THEN "ValueError" ELSE "none"

\* Link(c): __new__, then __init__ on the object it returned.
Link_call(c) ==
    IF Link_new(c) # "none" THEN Link_new(c) ELSE Link_init(c)

\* LinksView.__contains__: the exception it raises, and the set of the value
\* it returns.
LinksView_contains(g, c) ==
    IF Link_call(c) = "TypeError" THEN [err |-> "none", ret |-> {FALSE}]
    ELSE IF Link_call(c) # "none" THEN [err |-> Link_call(c), ret |-> {}]
    ELSE [err |-> "none", ret |-> {Link(c[1], c[2]) \in g.links}]

\* The links a caller can hand over: the pairs of distinct values.
AllLinks == {Link(p[1], p[2]) : p \in {q \in Values \X Values : q[1] # q[2]}}

\* self.links.clear() of a NodeView: MutableSet.clear pops a link of the node
\* and hands it to NodeLinksView.discard until none is left; it ends quietly on
\* a KeyError and lets any other exception through.  The set of its outcomes
\* over the iteration orders and the endpoint orders.
RECURSIVE NodeLinksView_clear(_, _, _)
NodeLinksView_clear(cls, g, node) ==
    IF NodeLinksView(g, node) = {} THEN {Ok(g)}
    ELSE UNION {IF r.err = "KeyError" THEN {Ok(r.g)}
                ELSE IF r.err # "none" THEN {r}
                ELSE NodeLinksView_clear(cls, r.g, node)
                : r \in {NodeLinksView_discard_on(cls, g, node, p[1], p[2])
                         : p \in UNION {Orientations(l)
                                        : l \in NodeLinksView(g, node)}}}

\* self.links.clear() of a graph: the same on its LinksView.
RECURSIVE LinksView_clear(_, _)
LinksView_clear(cls, g) ==
    IF g.links = {} THEN {Ok(g)}
    ELSE UNION {IF r.err = "KeyError" THEN {Ok(r.g)}
                ELSE IF r.err # "none" THEN {r}
                ELSE LinksView_clear(cls, r.g)
                : r \in {LinksView_discard_on(cls, g, p[1], p[2])
                         : p \in UNION {Orientations(l) : l \in g.links}}}

\* for link in links: add_link(link), over the links L still to add, in any
\* iteration order and with either endpoint order, stopping at the first call
\* that raises; o is a link with the outcome of adding it.
RECURSIVE AddEach(_, _, _)
AddEach(cls, g, L) ==
    IF L = {} THEN {Ok(g)}
    ELSE UNION {IF o[2].err # "none" THEN {o[2]}
                ELSE AddEach(cls, o[2].g, L \ {o[1]})
                : o \in {<<Link(p[1], p[2]),
                           graph_add_link(cls, g, p[1], p[2])>>
                         : p \in UNION {Orientations(l) : l \in L}}}

\* for node in neighbors: add_link(Link(self.node, node)), over the neighbors N
\* still to link, in any iteration order, stopping at the first call that
\* raises.
RECURSIVE LinkEach(_, _, _, _)
LinkEach(cls, g, node, N) ==
    IF N = {} THEN {Ok(g)}
    ELSE IF node \in N THEN LinkEach(cls, g, node, N \ {node})
    ELSE UNION {UNION {IF r.err # "none" THEN {r}
                       ELSE LinkEach(cls, r.g, node, N \ {m})
                       : r \in {graph_add_link(cls, g, node, m)}}
                : m \in N}

\* NodeView._set_links, given a set of links
NodeView_set_links(cls, g, node, links) ==
    IF node \notin g.nodes THEN {Ok(g)}
    ELSE UNION {IF c.err # "none" THEN {c} ELSE AddEach(cls, c.g, links)
                : c \in NodeLinksView_clear(cls, g, node)}

\* NodeView._set_neighborhood without its self.links.clear().
set_neighborhood_no_clear(cls, g, node, neighbors) ==
    IF node \notin g.nodes THEN {Ok(g)}
    ELSE IF node \notin neighbors THEN {Raise(g, "ValueError")}
    ELSE LinkEach(cls, g, node, neighbors)

\* NodeView._set_neighborhood
NodeView_set_neighborhood(cls, g, node, neighbors) ==
    IF node \notin g.nodes THEN {Ok(g)}
    ELSE IF node \notin neighbors THEN {Raise(g, "ValueError")}
    ELSE UNION {IF c.err # "none" THEN {c}
                ELSE LinkEach(cls, c.g, node, neighbors)
                : c \in NodeLinksView_clear(cls, g, node)}

\* Graph._set_links, given a set of links
Graph_set_links(cls, g, links) ==
    UNION {IF c.err # "none" THEN {c} ELSE AddEach(cls, c.g, links)
           : c \in LinksView_clear(cls, g)}

----------------------------------------------------------------------------
\* The locals of _minimal_spanning_subgraph, and once pc is "done" the
\* MinimalSpanningSubgraph built from them.  No computation is under way.
NoRun ==
    [pc |-> "none", start |-> None, subgraph |-> EmptyGraph, seen |-> {},
     level |-> {}, next_level |-> {}, layers |-> <<>>]

\* _minimal_spanning_subgraph up to its while loop, adding start although it
\* is not in the graph.
MssBeginUnchecked(g, start) ==
    [pc |-> "loop", start |-> start, subgraph |-> add(EmptyGraph, start).g,
     seen |-> {}, level |-> {}, next_level |-> {start}, layers |-> <<>>]

\* _minimal_spanning_subgraph up to its while loop.
MssBegin(g, start) ==
    IF start \in g.nodes
    THEN [pc |-> "loop", start |-> start,
          subgraph |-> add(EmptyGraph, start).g,
          seen |-> {}, level |-> {}, next_level |-> {start}, layers |-> <<>>]
    ELSE [pc |-> "loop", start |-> start, subgraph |-> EmptyGraph,
          seen |-> {}, level |-> {}, next_level |-> {}, layers |-> <<>>]

\* seen |= level left out.
MssSeenForgets(seen, level) == seen

\* seen |= level
MssSeen(seen, level) == seen \cup level

\* What the loops over a level have made so far of the subgraph and of the
\* next level, and the exception that has ended them.
Scanned(sub, next, e) == [subgraph |-> sub, next_level |-> next, err |-> e]

\* The body of the inner loop of _minimal_spanning_subgraph for a child that
\* is not in seen, up to next_level.add(child).
Discover(sub, parent, child) ==
    add_link(add(sub, child).g, parent, child)

\* The inner loop of _minimal_spanning_subgraph over the children C of parent
\* still to visit, in any iteration order; a child in seen is passed over.
RECURSIVE ScanChildren(_, _, _, _, _)
ScanChildren(sub, next, parent, C, seen) ==
    IF C = {} THEN {Scanned(sub, next, "none")}
    ELSE IF C \cap seen # {}
    THEN ScanChildren(sub, next, parent, C \ seen, seen)
    ELSE UNION {UNION {IF r.err # "none"
                       THEN {Scanned(r.g, next, r.err)}
                       ELSE ScanChildren(r.g, next \cup {child}, parent,
                                         C \ {child}, seen)
                       : r \in {Discover(sub, parent, child)}}
                : child \in C}

\* The loop of _minimal_spanning_subgraph over the parents P of a level still
\* to visit, in any iteration order, on the source graph g.
RECURSIVE ScanLevel(_, _, _, _, _)
ScanLevel(g, sub, next, P, seen) ==
    IF P = {} THEN {Scanned(sub, next, "none")}
    ELSE UNION {UNION {IF o.err # "none" THEN {o}
                       ELSE ScanLevel(g, o.subgraph, o.next_level,
                                      P \ {parent}, seen)
                       : o \in ScanChildren(sub, next, parent,
                                            NeighborhoodView(g, parent), seen)}
                : parent \in P}

\* One pass of the while loop of _minimal_spanning_subgraph on the source
\* graph g: the set of its outcomes over the iteration orders.
MssPass(g, m) ==
    LET level  == m.next_level
        seen   == MssSeen(m.seen, level)
        layers == Append(m.layers, level)
    IN  {[pc |-> IF o.err = "none" THEN "loop" ELSE "raised",
          start |-> m.start, subgraph |-> o.subgraph, seen |-> seen,
          level |-> level, next_level |-> o.next_level, layers |-> layers]
         : o \in ScanLevel(g, m.subgraph, {}, level, seen)}

\* Graph.__init__ given a Graph: a copy of its four indices.
GraphCopy(g) ==
    [nodes |-> g.nodes, links |-> g.links,
     node_links |-> [n \in DOMAIN g.node_links |-> g.node_links[n]],
     neighborhoods |-> [n \in DOMAIN g.neighborhoods |-> g.neighborhoods[n]]]

\* MinimalSpanningSubgraph.__init__ once _minimal_spanning_subgraph has
\* returned.
MssResult(m) ==
    [m EXCEPT !.pc = "done", !.subgraph = GraphCopy(m.subgraph)]

\* A line of render_nodes_and_links: '{', '}' and 'rank=same;' as they are,
\* the line of render_node for a node, the line of render_link for a link
\* from left to right.
TextLine(s) == [kind |-> s, left |-> None, right |-> None]

\* Graph.render_node
render_node(node) == [kind |-> "node", left |-> node, right |-> None]

\* Graph.render_link of Link(left, right)
render_link(left, right) == [kind |-> "link", left |-> left, right |-> right]

\* The orders in which iterating the set S can present its members.
RECURSIVE Orders(_)
Orders(S) ==
    IF S = {} THEN {<<>>}
    ELSE UNION {{<<x>> \o s : s \in Orders(S \ {x})} : x \in S}

\* The first loop of MinimalSpanningSubgraph.render_nodes_and_links: the
\* rank blocks of the layers, over the iteration orders.
RECURSIVE RenderRanks(_)
RenderRanks(layers) ==
    IF layers = <<>> THEN {<<>>}
    ELSE {<<TextLine("{"), TextLine("rank=same;")>>
              \o [i \in 1 .. Len(s) |-> render_node(s[i])]
              \o <<TextLine("}")>> \o rest
          : s \in Orders(Head(layers)), rest \in RenderRanks(Tail(layers))}

\* seen.add(node) left out.
RenderSeenForgets(seen, node) == seen

\* seen.add(node)
RenderSeen(seen, node) == seen \cup {node}

\* seen once every node of layer has been through seen.add.
RECURSIVE RenderSeenAll(_, _)
RenderSeenAll(seen, layer) ==
    IF layer = {} THEN seen
    ELSE LET node == CHOOSE n \in layer : TRUE
         IN  RenderSeenAll(RenderSeen(seen, node), layer \ {node})

\* The link lines the second loop emits for the nodes s of a layer in that
\* order, over the iteration orders of their neighborhoods; a child in seen
\* is passed over.
RECURSIVE RenderNodeLinks(_, _, _)
RenderNodeLinks(sub, seen, s) ==
    IF s = <<>> THEN {<<>>}
    ELSE LET node  == Head(s)
             seen1 == RenderSeen(seen, node)
             C     == {c \in NeighborhoodView(sub, node) : c \notin seen1}
         IN  {[i \in 1 .. Len(o) |-> render_link(node, o[i])] \o rest
              : o \in Orders(C),
                rest \in RenderNodeLinks(sub, seen1, Tail(s))}

\* The second loop of MinimalSpanningSubgraph.render_nodes_and_links: the
\* link blocks of the layers, over the iteration orders.
RECURSIVE RenderLinks(_, _, _)
RenderLinks(sub, seen, layers) ==
    IF layers = <<>> THEN {<<>>}
    ELSE {<<TextLine("{")>> \o lines \o <<TextLine("}")>> \o rest
          : lines \in UNION {RenderNodeLinks(sub, seen, s)
                             : s \in Orders(Head(layers))},
            rest \in RenderLinks(sub, RenderSeenAll(seen, Head(layers)),
                                 Tail(layers))}

\* MinimalSpanningSubgraph.render_nodes_and_links: the lists of lines it can
\* return over the iteration orders.
render_nodes_and_links(m) ==
    {ranks \o links : ranks \in RenderRanks(m.layers),
                      links \in RenderLinks(m.subgraph, {}, m.layers)}

----------------------------------------------------------------------------
\* The record of a call: the method, then its receiver's node and its
\* arguments.
Called(name, node, left, right) ==
    [name |-> name, node |-> node, left |-> left, right |-> right]

\* No call is in progress or waiting to be observed.
Idle == Called("idle", None, None, None)

\* The state when the call returned or raised r: the calls are synchronous,
\* one is made only once the previous one is over.
Finish(call, r) ==
    /\ op = Idle
    /\ _nodes' = r.g.nodes
    /\ _links' = r.g.links
    /\ _node_links' = r.g.node_links
    /\ _neighborhoods' = r.g.neighborhoods
    /\ op' = call
    /\ err' = r.err
    /\ pre' = G
    /\ UNCHANGED aux

\* The state when a call whose outcome no claim looks at is over: only what it
\* left of the graph is kept.
Apply(r) ==
    /\ op = Idle
    /\ _nodes' = r.g.nodes
    /\ _links' = r.g.links
    /\ _node_links' = r.g.node_links
    /\ _neighborhoods' = r.g.neighborhoods
    /\ op' = Idle
    /\ err' = "none"
    /\ pre' = r.g
    /\ UNCHANGED aux

Init ==
    /\ _nodes = {}
    /\ _links = {}
    /\ _node_links = <<>>
    /\ _neighborhoods = <<>>
    /\ op = Idle
    /\ err = "none"
    /\ pre = EmptyGraph
    /\ mss = NoRun
    /\ arg = <<>>
    /\ ret = {}

GraphAdd ==
    \E value \in Values :
        Finish(Called("Graph.add", None, value, None), add(G, value))

GraphDiscard ==
    /\ op = Idle
    /\ \E value \in Values :
           \E r \in discard(G, value) :
               Finish(Called("Graph.discard", None, value, None), r)

GraphAddLink ==
    \E left \in Values, right \in Values :
        Finish(Called("Graph.add_link", None, left, right),
               add_link(G, left, right))

GraphDiscardLink ==
    \E left \in Values, right \in Values :
        Finish(Called("Graph.discard_link", None, left, right),
               discard_link(G, left, right))

LinksViewAdd ==
    \E left \in Values, right \in Values :
        Apply(LinksView_add(G, left, right))

LinksViewDiscard ==
    \E left \in Values, right \in Values :
        Apply(LinksView_discard(G, left, right))

NodeLinksViewAdd ==
    \E node \in Values, left \in Values, right \in Values :
        Apply(NodeLinksView_add(G, node, left, right))

NodeLinksViewDiscard ==
    \E node \in Values, left \in Values, right \in Values :
        Apply(NodeLinksView_discard(G, node, left, right))

NeighborhoodViewAdd ==
    \E node \in Values, value \in Values :
        Apply(NeighborhoodView_add(G, node, value))

NeighborhoodViewDiscard ==
    \E node \in Values, value \in Values :
        Apply(NeighborhoodView_discard(G, node, value))

NodeViewRemoveSelf ==
    /\ op = Idle
    /\ \E node \in Values :
           \E r \in remove_self(G, node) :
               Apply(r)

NodeViewAddSelf ==
    \E node \in Values :
        Apply(add_self(G, node))

NodeViewLinkNode ==
    \E node \in Values, other \in Values :
        Apply(link_node(G, node, other))

NodeViewUnlinkNode ==
    \E node \in Values, other \in Values :
        Apply(unlink_node(G, node, other))

\* The caller has seen the outcome of its call and goes on; the graph is as
\* the call left it.
Return ==
    /\ op # Idle
    /\ mss.pc # "loop"
    /\ op' = Idle
    /\ err' = "none"
    /\ pre' = G
    /\ mss' = NoRun
    /\ arg' = <<>>
    /\ ret' = {}
    /\ UNCHANGED <<_nodes, _links, _node_links, _neighborhoods>>

\* The calls on the graph itself.
Next ==
    \/ GraphAdd
    \/ GraphDiscard
    \/ GraphAddLink
    \/ GraphDiscardLink
    \/ Return

Spec == Init /\ [][Next]_vars

\* The calls on the graph itself and through its views.
NextViews ==
    \/ GraphAdd
    \/ GraphDiscard
    \/ GraphAddLink
    \/ GraphDiscardLink
    \/ LinksViewAdd
    \/ LinksViewDiscard
    \/ NodeLinksViewAdd
    \/ NodeLinksViewDiscard
    \/ NeighborhoodViewAdd
    \/ NeighborhoodViewDiscard
    \/ NodeViewRemoveSelf
    \/ NodeViewAddSelf
    \/ NodeViewLinkNode
    \/ NodeViewUnlinkNode
    \/ Return

SpecViews == Init /\ [][NextViews]_vars

----------------------------------------------------------------------------
\* The source graphs of minimal_spanning are built from new nodes and from
\* links, by calls whose outcome is not recorded.
GrowNode ==
    /\ mss.pc = "none"
    /\ \E value \in SpanValues \ _nodes :
           Apply(add(G, value))

GrowLink ==
    /\ mss.pc = "none"
    /\ \E left \in SpanValues, right \in SpanValues :
           Apply(add_link(G, left, right))

\* Graph.minimal_spanning(start) is called and reaches the while loop.
MssStart ==
    /\ op = Idle
    /\ mss.pc = "none"
    /\ \E start \in SpanValues :
           /\ mss' = MssBegin(G, start)
           /\ op' = Called("Graph.minimal_spanning", None, start, None)
    /\ err' = "none"
    /\ pre' = G
    /\ UNCHANGED <<_nodes, _links, _node_links, _neighborhoods, arg, ret>>

\* One pass of the while loop.
MssLevel ==
    /\ mss.pc = "loop"
    /\ mss.next_level # {}
    /\ \E m \in MssPass(G, mss) : mss' = m
    /\ UNCHANGED <<_nodes, _links, _node_links, _neighborhoods,
                   op, err, pre, arg, ret>>

\* The while loop ends and the MinimalSpanningSubgraph is returned.
MssFinish ==
    /\ mss.pc = "loop"
    /\ mss.next_level = {}
    /\ mss' = MssResult(mss)
    /\ UNCHANGED <<_nodes, _links, _node_links, _neighborhoods,
                   op, err, pre, arg, ret>>

\* render_nodes_and_links is called on the MinimalSpanningSubgraph; ret is
\* the set of the lists of lines it can return.
MssRender ==
    /\ mss.pc = "done"
    /\ op.name = "Graph.minimal_spanning"
    /\ op' = Called("MinimalSpanningSubgraph.render_nodes_and_links",
                    None, None, None)
    /\ ret' = render_nodes_and_links(mss)
    /\ UNCHANGED <<_nodes, _links, _node_links, _neighborhoods,
                   err, pre, mss, arg>>

\* The calls that build a graph, compute a minimal spanning subgraph and
\* render it.
NextSpanning ==
    \/ GrowNode
    \/ GrowLink
    \/ MssStart
    \/ MssLevel
    \/ MssFinish
    \/ MssRender
    \/ Return

SpecSpanning == Init /\ [][NextSpanning]_vars

\* The while loop is not left half-way: the caller runs it to its end.
SpecSpanningFair ==
    SpecSpanning /\ WF_vars(MssLevel) /\ WF_vars(MssFinish)

----------------------------------------------------------------------------
\* The graphs whose minimal spanning subgraph is put to the test of its
\* immutability are built from new nodes and from links over Values.
BuildNode ==
    \E value \in Values \ _nodes :
        Apply(add(G, value))

BuildLink ==
    \E left \in Values, right \in Values :
        Apply(add_link(G, left, right))

\* The state when a call on the MinimalSpanningSubgraph that
\* minimal_spanning has returned, or on one of its views, is over: r is its
\* outcome, c the collection it was given, pre the indices of the subgraph
\* before the call.
Attempt(call, c, r) ==
    /\ op' = call
    /\ arg' = c
    /\ err' = r.err
    /\ pre' = mss.subgraph
    /\ mss' = [mss EXCEPT !.subgraph = r.g]
    /\ UNCHANGED <<_nodes, _links, _node_links, _neighborhoods, ret>>

\* minimal_spanning has returned a MinimalSpanningSubgraph and nothing has
\* been done with it yet.
Returned ==
    /\ op.name = "Graph.minimal_spanning"
    /\ mss.pc = "done"

\* The class of the graph the attempts are made on.
Sub == "MinimalSpanningSubgraph"

SubgraphAdd ==
    /\ Returned
    /\ \E value \in Values :
           Attempt(Called("subgraph.add", None, value, None), <<>>,
                   graph_add(Sub, mss.subgraph, value))

SubgraphDiscard ==
    /\ Returned
    /\ \E value \in Values :
           \E r \in graph_discard(Sub, mss.subgraph, value) :
               Attempt(Called("subgraph.discard", None, value, None), <<>>, r)

SubgraphAddLink ==
    /\ Returned
    /\ \E left \in Values, right \in Values :
           Attempt(Called("subgraph.add_link", None, left, right), <<>>,
                   graph_add_link(Sub, mss.subgraph, left, right))

SubgraphDiscardLink ==
    /\ Returned
    /\ \E left \in Values, right \in Values :
           Attempt(Called("subgraph.discard_link", None, left, right), <<>>,
                   graph_discard_link(Sub, mss.subgraph, left, right))

SubgraphLinksAdd ==
    /\ Returned
    /\ \E left \in Values, right \in Values :
           Attempt(Called("subgraph.links.add", None, left, right), <<>>,
                   LinksView_add_on(Sub, mss.subgraph, left, right))

SubgraphLinksDiscard ==
    /\ Returned
    /\ \E left \in Values, right \in Values :
           Attempt(Called("subgraph.links.discard", None, left, right), <<>>,
                   LinksView_discard_on(Sub, mss.subgraph, left, right))

SubgraphNodeLinksAdd ==
    /\ Returned
    /\ \E node \in Values, left \in Values, right \in Values :
           Attempt(Called("subgraph.node_links.add", node, left, right), <<>>,
                   NodeLinksView_add_on(Sub, mss.subgraph, node, left, right))

SubgraphNodeLinksDiscard ==
    /\ Returned
    /\ \E node \in Values, left \in Values, right \in Values :
           Attempt(Called("subgraph.node_links.discard", node, left, right), <<>>,
                   NodeLinksView_discard_on(Sub, mss.subgraph, node, left, right))

SubgraphNeighborhoodAdd ==
    /\ Returned
    /\ \E node \in Values, value \in Values :
           Attempt(Called("subgraph.neighborhood.add", node, value, None), <<>>,
                   NeighborhoodView_add_on(Sub, mss.subgraph, node, value))

SubgraphNeighborhoodDiscard ==
    /\ Returned
    /\ \E node \in Values, value \in Values :
           Attempt(Called("subgraph.neighborhood.discard", node, value, None),
                   <<>>,
                   NeighborhoodView_discard_on(Sub, mss.subgraph, node, value))

SubgraphNodeRemoveSelf ==
    /\ Returned
    /\ \E node \in Values :
           \E r \in remove_self_on(Sub, mss.subgraph, node) :
               Attempt(Called("subgraph.node_view.remove_self", node, None, None),
                       <<>>, r)

SubgraphNodeAddSelf ==
    /\ Returned
    /\ \E node \in Values :
           Attempt(Called("subgraph.node_view.add_self", node, None, None), <<>>,
                   add_self_on(Sub, mss.subgraph, node))

SubgraphNodeLinkNode ==
    /\ Returned
    /\ \E node \in Values, other \in Values :
           Attempt(Called("subgraph.node_view.link_node", node, other, None),
                   <<>>, link_node_on(Sub, mss.subgraph, node, other))

SubgraphNodeUnlinkNode ==
    /\ Returned
    /\ \E node \in Values, other \in Values :
           Attempt(Called("subgraph.node_view.unlink_node", node, other, None),
                   <<>>, unlink_node_on(Sub, mss.subgraph, node, other))

SubgraphNodeSetLinks ==
    /\ Returned
    /\ \E node \in Values, links \in SUBSET AllLinks :
           \E r \in NodeView_set_links(Sub, mss.subgraph, node, links) :
               Attempt(Called("subgraph.node_view.links=", node, None, None),
                       links, r)

SubgraphNodeSetNeighborhood ==
    /\ Returned
    /\ \E node \in Values, neighbors \in SUBSET Values :
           \E r \in NodeView_set_neighborhood(Sub, mss.subgraph, node,
                                              neighbors) :
               Attempt(Called("subgraph.node_view.neighborhood=",
                              node, None, None), neighbors, r)

SubgraphSetLinks ==
    /\ Returned
    /\ \E links \in SUBSET AllLinks :
           \E r \in Graph_set_links(Sub, mss.subgraph, links) :
               Attempt(Called("subgraph.links=", None, None, None), links, r)

\* The calls that build a graph, compute a minimal spanning subgraph of it
\* and try to change the subgraph.
NextImmutable ==
    \/ BuildNode
    \/ BuildLink
    \/ MssStart
    \/ MssLevel
    \/ MssFinish
    \/ SubgraphAdd
    \/ SubgraphDiscard
    \/ SubgraphAddLink
    \/ SubgraphDiscardLink
    \/ SubgraphLinksAdd
    \/ SubgraphLinksDiscard
    \/ SubgraphNodeLinksAdd
    \/ SubgraphNodeLinksDiscard
    \/ SubgraphNeighborhoodAdd
    \/ SubgraphNeighborhoodDiscard
    \/ SubgraphNodeRemoveSelf
    \/ SubgraphNodeAddSelf
    \/ SubgraphNodeLinkNode
    \/ SubgraphNodeUnlinkNode
    \/ SubgraphNodeSetLinks
    \/ SubgraphNodeSetNeighborhood
    \/ SubgraphSetLinks
    \/ Return

SpecImmutable == Init /\ [][NextImmutable]_vars

----------------------------------------------------------------------------
\* The state when a call that was given the collection c returned or raised r.
FinishGiven(call, c, r) ==
    /\ _nodes' = r.g.nodes
    /\ _links' = r.g.links
    /\ _node_links' = r.g.node_links
    /\ _neighborhoods' = r.g.neighborhoods
    /\ op' = call
    /\ err' = r.err
    /\ pre' = G
    /\ arg' = c
    /\ UNCHANGED <<mss, ret>>

\* graph.neighborhood(node).add(value), its outcome recorded.
NeighborhoodViewAddCall ==
    \E node \in Values, value \in Values :
        Finish(Called("NeighborhoodView.add", node, value, None),
               NeighborhoodView_add(G, node, value))

\* graph.node_view(node).links = links
NodeViewSetLinks ==
    /\ op = Idle
    /\ \E node \in Values, links \in SUBSET AllLinks :
           \E r \in NodeView_set_links("Graph", G, node, links) :
               FinishGiven(Called("NodeView.links=", node, None, None),
                           links, r)

\* graph.node_view(node).neighborhood = neighbors
NodeViewSetNeighborhood ==
    /\ op = Idle
    /\ \E node \in Values, neighbors \in SUBSET Values :
           \E r \in NodeView_set_neighborhood("Graph", G, node, neighbors) :
               FinishGiven(Called("NodeView.neighborhood=", node, None, None),
                           neighbors, r)

\* graph.links = links
GraphSetLinks ==
    /\ op = Idle
    /\ \E links \in SUBSET AllLinks :
           \E r \in Graph_set_links("Graph", G, links) :
               FinishGiven(Called("Graph.links=", None, None, None),
                           links, r)

\* Nodes are added, also again, and linked through a node view, and the
\* neighborhood of a node view is assigned.
NextSetNeighborhood ==
    \/ NodeViewAddSelf
    \/ NodeViewLinkNode
    \/ NodeViewSetNeighborhood
    \/ Return

SpecSetNeighborhood == Init /\ [][NextSetNeighborhood]_vars

\* The graph is brought to any of its states through a node view, and is
\* changed through NeighborhoodView.add and the three setters.
NextSetters ==
    \/ NodeViewAddSelf
    \/ NodeViewRemoveSelf
    \/ NodeViewLinkNode
    \/ NodeViewUnlinkNode
    \/ NeighborhoodViewAddCall
    \/ NodeViewSetLinks
    \/ NodeViewSetNeighborhood
    \/ GraphSetLinks
    \/ Return

SpecSetters == Init /\ [][NextSetters]_vars

----------------------------------------------------------------------------
\* The collections tested for membership: the tuples over Values of up to
\* MaxCandidateLen elements.
Candidates == UNION {[1 .. n -> Values] : n \in 0 .. MaxCandidateLen}

\* candidate in graph.links
LinksViewContains ==
    /\ op = Idle
    /\ \E c \in Candidates :
           /\ op' = Called("LinksView.__contains__", None, None, None)
           /\ arg' = c
           /\ err' = LinksView_contains(G, c).err
           /\ ret' = LinksView_contains(G, c).ret
    /\ pre' = G
    /\ UNCHANGED <<_nodes, _links, _node_links, _neighborhoods, mss>>

\* Nodes are added and linked through a node view, links are removed, and
\* collections are tested for membership in the links view.
NextContains ==
    \/ NodeViewAddSelf
    \/ NodeViewLinkNode
    \/ NodeViewUnlinkNode
    \/ LinksViewContains
    \/ Return

SpecContains == Init /\ [][NextContains]_vars

----------------------------------------------------------------------------
\* The links of the link set that touch n.
Incident(n) == {l \in _links : n \in l}

\* n together with the nodes the link set links it to.
Adjacent(n) == {n} \cup {m \in Values : m # n /\ Link(n, m) \in _links}

\* The link a recorded add_link or discard_link call names.
OpLink == Link(op.left, op.right)

\* C1: for every node n of the node set, the neighbor index entry of n is n
\* together with the nodes the link set links n to.
C1_NeighborsAreProjection ==
    \A n \in _nodes :
        /\ n \in DOMAIN _neighborhoods
        /\ _neighborhoods[n] = Adjacent(n)

\* C2: for every value n, the incident-link index of n (an absent entry
\* counting as the empty set) is the set of the links of the link set that
\* touch n.
C2_IncidentIsProjection ==
    \A n \in Values : GetOrEmpty(_node_links, n) = Incident(n)

\* A node that had two links has lost one of them in a discard_link call.
C2_Witness ==
    /\ op.name = "Graph.discard_link"
    /\ err = "none"
    /\ OpLink \in pre.links
    /\ \E n \in OpLink : Incident(n) # {}

\* C3: both endpoints of every link of the link set are in the node set.
C3_EndpointsAreNodes ==
    \A l \in _links : l \subseteq _nodes

\* A node with a link has been discarded and another link is left.
C3_Witness ==
    /\ op.name = "Graph.discard"
    /\ err = "none"
    /\ GetOrEmpty(pre.node_links, op.left) # {}
    /\ _links # {}

\* C4: the neighbor index has an entry exactly for the nodes of the node set,
\* and the entry of a node holds the node itself.
C4_NeighborhoodHoldsItsNode ==
    /\ DOMAIN _neighborhoods = _nodes
    /\ \A n \in _nodes : n \in _neighborhoods[n]

\* A node has lost its last link, another node has been discarded before,
\* and the entries are those of the nodes left.
C4_Witness ==
    /\ op.name = "Graph.discard_link"
    /\ err = "none"
    /\ OpLink \in pre.links
    /\ \E n \in OpLink : _neighborhoods[n] = {n}
    /\ _nodes # Values

\* C5: Graph.add of a node that is already in the node set leaves the four
\* indices as they were.
C5_AddIsIdempotent ==
    (op.name = "Graph.add" /\ op.left \in pre.nodes) => G = pre

\* C6: after Graph.add_link(a, b) on distinct nodes a and b of the node set,
\* each is in the other's neighborhood, the link is in the link set and in
\* the incident links of both, and nothing else has changed.
C6_AddLinkEffect ==
    (/\ op.name = "Graph.add_link"
     /\ op.left # op.right
     /\ {op.left, op.right} \subseteq pre.nodes)
    => /\ err = "none"
       /\ op.right \in NeighborhoodView(G, op.left)
       /\ op.left \in NeighborhoodView(G, op.right)
       /\ OpLink \in NodeLinksView(G, op.left)
       /\ OpLink \in NodeLinksView(G, op.right)
       /\ OpLink \in _links
       /\ _nodes = pre.nodes
       /\ _links \ {OpLink} = pre.links \ {OpLink}
       /\ DOMAIN _neighborhoods = DOMAIN pre.neighborhoods
       /\ \A n \in Values :
              /\ NodeLinksView(G, n) \ {OpLink}
                     = NodeLinksView(pre, n) \ {OpLink}
              /\ n \notin OpLink
                     => NeighborhoodView(G, n) = NeighborhoodView(pre, n)
       /\ NeighborhoodView(G, op.left) \ {op.right}
              = NeighborhoodView(pre, op.left) \ {op.right}
       /\ NeighborhoodView(G, op.right) \ {op.left}
              = NeighborhoodView(pre, op.right) \ {op.left}

\* A new link has been added to a graph that had a link already.
C6_Witness ==
    /\ op.name = "Graph.add_link"
    /\ err = "none"
    /\ OpLink \notin pre.links
    /\ OpLink \in _links
    /\ pre.links # {}

\* C7: Graph.add_link(a, b) with a or b outside the node set raises, and the
\* four indices are as they were.
C7_AddLinkUnknownNode ==
    (/\ op.name = "Graph.add_link"
     /\ ~({op.left, op.right} \subseteq pre.nodes))
    => /\ err # "none"
       /\ G = pre

\* add_link has raised for a link from a node that has links to a value
\* that is not a node.
C7_Witness ==
    /\ op.name = "Graph.add_link"
    /\ err = "ValueError"
    /\ op.left \in pre.nodes
    /\ op.right \notin pre.nodes
    /\ GetOrEmpty(pre.node_links, op.left) # {}

\* C8: after Graph.discard(a) of a node a of the node set, a is not in the
\* node set, no link touches a, no neighborhood holds a, the views of a read
\* as empty, and the links that did not touch a are as they were.
C8_DiscardEffect ==
    (op.name = "Graph.discard" /\ op.left \in pre.nodes)
    => /\ err = "none"
       /\ op.left \notin _nodes
       /\ \A l \in _links : op.left \notin l
       /\ \A n \in DOMAIN _neighborhoods : op.left \notin _neighborhoods[n]
       /\ NodeLinksView(G, op.left) = {}
       /\ NeighborhoodView(G, op.left) = {}
       /\ _links = {l \in pre.links : op.left \notin l}

\* A node with two links has been discarded and a link is left.
C8_Witness ==
    /\ op.name = "Graph.discard"
    /\ err = "none"
    /\ Cardinality(GetOrEmpty(pre.node_links, op.left)) = 2
    /\ _links # {}
    /\ _links # pre.links

\* C9: Graph.discard of a value that is not in the node set returns without
\* raising and leaves the four indices as they were.
C9_DiscardAbsentIsNoop ==
    (op.name = "Graph.discard" /\ op.left \notin pre.nodes)
    => /\ err = "none"
       /\ G = pre

\* C10: Graph.discard_link of a link of two distinct values that is not in
\* the link set returns without raising and leaves the four indices as they
\* were.
C10_DiscardLinkAbsentIsNoop ==
    (/\ op.name = "Graph.discard_link"
     /\ op.left # op.right
     /\ OpLink \notin pre.links)
    => /\ err = "none"
       /\ G = pre

----------------------------------------------------------------------------
\* The nodes of the source graph at most k links away from the start node.
RECURSIVE Within(_)
Within(k) ==
    IF k = 0 THEN {mss.start} \cap _nodes
    ELSE LET B == Within(k - 1)
         IN  B \cup {m \in _nodes : \E n \in B : Link(n, m) \in _links}

\* The nodes of the source graph whose shortest path from the start node has
\* k links.
AtDistance(k) == IF k = 0 THEN Within(0) ELSE Within(k) \ Within(k - 1)

\* The connected component of the start node in the source graph.
Component == Within(Cardinality(_nodes))

\* The indices of the source graph are consistent: the neighborhood of every
\* node is the node with the nodes a link joins it to.
SourceIsConsistent ==
    \A n \in _nodes :
        /\ n \in DOMAIN _neighborhoods
        /\ _neighborhoods[n]
               = {n} \cup {m \in _nodes : m # n /\ Link(n, m) \in _links}

\* The layers of the computation are pairwise disjoint.
LayersDisjoint ==
    \A i \in DOMAIN mss.layers, j \in DOMAIN mss.layers :
        i # j => mss.layers[i] \cap mss.layers[j] = {}

\* C11: on a source graph with consistent indices, the layers of
\* minimal_spanning(start) are the non-empty classes of nodes by shortest-path
\* distance from start, in order; they are pairwise disjoint, their union and
\* the node set of the subgraph are the connected component of start, and
\* there is no layer and no node when start is not in the graph.
C11_LayersAreDistanceClasses ==
    (mss.pc = "done" /\ SourceIsConsistent)
    => /\ \A k \in DOMAIN mss.layers :
              /\ mss.layers[k] = AtDistance(k - 1)
              /\ mss.layers[k] # {}
       /\ AtDistance(Len(mss.layers)) = {}
       /\ LayersDisjoint
       /\ UNION {mss.layers[k] : k \in DOMAIN mss.layers} = Component
       /\ mss.subgraph.nodes = Component
       /\ mss.start \notin _nodes
              => mss.layers = <<>> /\ mss.subgraph = EmptyGraph

\* A computation has ended with three layers, one of them of two nodes.
C11_Witness ==
    /\ mss.pc = "done"
    /\ SourceIsConsistent
    /\ Cardinality(_nodes) = MaxSpanNodes
    /\ Len(mss.layers) = 3
    /\ \E k \in DOMAIN mss.layers : Cardinality(mss.layers[k]) = 2

\* C12: the links of minimal_spanning(start), start a node of the graph, are
\* links of the source graph, one per reached node other than start, to a
\* node of the layer before: a tree of as many links as reached nodes less
\* one.
C12_LinksAreSpanningTree ==
    (mss.pc = "done" /\ mss.start \in _nodes)
    => /\ mss.subgraph.links \subseteq _links
       /\ Cardinality(mss.subgraph.links)
              = Cardinality(mss.subgraph.nodes) - 1
       /\ \A k \in DOMAIN mss.layers : k > 1 =>
              \A n \in mss.layers[k] :
                  Cardinality({l \in mss.subgraph.links :
                                 /\ n \in l
                                 /\ l \cap mss.layers[k - 1] # {}}) = 1

\* C18: every list of lines that render_nodes_and_links can return for a
\* MinimalSpanningSubgraph has one link line for each link of the subgraph,
\* no link line for another pair, and one node line for each node.
C18_RenderEmitsEachLinkOnce ==
    op.name = "MinimalSpanningSubgraph.render_nodes_and_links"
    => \A lines \in ret :
          /\ \A l \in mss.subgraph.links :
                 Cardinality({i \in DOMAIN lines :
                                /\ lines[i].kind = "link"
                                /\ Link(lines[i].left, lines[i].right) = l}) = 1
          /\ \A i \in DOMAIN lines :
                 lines[i].kind = "link"
                     => Link(lines[i].left, lines[i].right)
                            \in mss.subgraph.links
          /\ \A n \in mss.subgraph.nodes :
                 Cardinality({i \in DOMAIN lines :
                                lines[i] = render_node(n)}) = 1
          /\ \A i \in DOMAIN lines :
                 lines[i].kind = "node" => lines[i].left \in mss.subgraph.nodes

\* A subgraph of three layers and at least three links has been rendered.
C18_Witness ==
    /\ op.name = "MinimalSpanningSubgraph.render_nodes_and_links"
    /\ Len(mss.layers) = 3
    /\ Cardinality(mss.subgraph.links) >= 3
    /\ ret # {}

\* C19: in the graph that minimal_spanning(start) returns, the neighborhood
\* of every node is the node with the nodes the subgraph links it to, and
\* its incident links are the links of the subgraph that touch it.
C19_SubgraphIndicesConsistent ==
    mss.pc = "done"
    => \A n \in mss.subgraph.nodes :
          /\ NeighborhoodView(mss.subgraph, n)
                 = {n} \cup {m \in mss.subgraph.nodes :
                                m # n /\ Link(n, m) \in mss.subgraph.links}
          /\ NodeLinksView(mss.subgraph, n)
                 = {l \in mss.subgraph.links : n \in l}

\* C20: the while loop of minimal_spanning ends: every pass adds nodes to
\* seen, no node is in two layers, there are never more layers than nodes,
\* and a computation that is in the loop gets out of it with an empty next
\* level.
C20_FrontierLoopTerminates ==
    /\ [](LayersDisjoint /\ Len(mss.layers) <= Cardinality(_nodes))
    /\ [][MssLevel => (mss.seen \subseteq mss'.seen /\ mss.seen # mss'.seen)]_vars
    /\ [](mss.pc = "loop"
             => <>(mss.pc = "done" /\ mss.next_level = {}))

\* A computation has ended after as many passes as the graph has nodes,
\* three or more.
C20_Witness ==
    /\ mss.pc = "done"
    /\ Len(mss.layers) = Cardinality(_nodes)
    /\ Len(mss.layers) >= 3

----------------------------------------------------------------------------
\* The recorded call was made on a MinimalSpanningSubgraph or on one of its
\* views.
OnSubgraph ==
    op.name \in {"subgraph.add", "subgraph.discard", "subgraph.add_link",
                 "subgraph.discard_link", "subgraph.links.add",
                 "subgraph.links.discard", "subgraph.node_links.add",
                 "subgraph.node_links.discard", "subgraph.neighborhood.add",
                 "subgraph.neighborhood.discard",
                 "subgraph.node_view.remove_self",
                 "subgraph.node_view.add_self",
                 "subgraph.node_view.link_node",
                 "subgraph.node_view.unlink_node",
                 "subgraph.node_view.links=",
                 "subgraph.node_view.neighborhood=", "subgraph.links="}

\* The recorded call was made on the MinimalSpanningSubgraph itself.
OnSubgraphDirectly ==
    op.name \in {"subgraph.add", "subgraph.discard", "subgraph.add_link",
                 "subgraph.discard_link"}

\* The recorded call on a view of the subgraph had nothing to add and nothing
\* to remove.
NothingToChange ==
    \/ /\ op.name = "subgraph.node_links.discard"
       /\ LinkIsValid(op.left, op.right)
       /\ Link(op.left, op.right) \notin NodeLinksView(pre, op.node)
    \/ /\ op.name \in {"subgraph.node_view.links=",
                       "subgraph.node_view.neighborhood="}
       /\ op.node \notin pre.nodes
    \/ /\ op.name = "subgraph.node_view.links="
       /\ NodeLinksView(pre, op.node) = {}
       /\ arg = {}
    \/ /\ op.name = "subgraph.node_view.neighborhood="
       /\ NodeLinksView(pre, op.node) = {}
       /\ arg = {op.node}
    \/ /\ op.name = "subgraph.links="
       /\ pre.links = {}
       /\ arg = {}

\* C13 as stated: every call that tries to add or remove a node or a link on
\* a MinimalSpanningSubgraph, directly or through a view, raises and leaves
\* the indices of the subgraph as they were.
C13_EveryAttemptFails ==
    OnSubgraph => (err # "none" /\ mss.subgraph = pre)

\* C13, amended: every such call leaves the indices of the subgraph as they
\* were and its layers those of its nodes; a direct call raises TypeError, and
\* a call through a view raises unless it had nothing to add and nothing to
\* remove.
C13_SubgraphIsUnchanged ==
    OnSubgraph
    => /\ mss.subgraph = pre
       /\ UNION {mss.layers[k] : k \in DOMAIN mss.layers} = pre.nodes
       /\ OnSubgraphDirectly => err = "TypeError"
       /\ (err = "none") <=> NothingToChange

\* A call through the node_links view of a subgraph with two links has tried
\* to add a third link between two of its nodes and has raised.
C13_Witness ==
    /\ op.name = "subgraph.node_links.add"
    /\ err = "TypeError"
    /\ Cardinality(pre.links) = 2
    /\ Link(op.left, op.right) \notin pre.links
    /\ {op.left, op.right} \subseteq pre.nodes
    /\ op.node = op.left
    /\ op.left # op.right
    /\ mss.subgraph = pre

----------------------------------------------------------------------------
\* C14: NeighborhoodView(n).add(other) on a node n of the graph, other # n,
\* adds other to the node set, the link of n and other to the link set and to
\* the incident links of both, each to the other's neighborhood, and changes
\* nothing else: other keeps the neighbors it had; with other = n the four
\* indices are as they were.
C14_NeighborhoodAddFrame ==
    (op.name = "NeighborhoodView.add" /\ op.node \in pre.nodes)
    => IF op.left = op.node THEN G = pre
       ELSE LET n     == op.node
                other == op.left
                link  == Link(n, other)
            IN  /\ err = "none"
                /\ _nodes = pre.nodes \cup {other}
                /\ _links = pre.links \cup {link}
                /\ \A v \in Values :
                       /\ NodeLinksView(G, v)
                              = NodeLinksView(pre, v)
                                    \cup (IF v \in link THEN {link} ELSE {})
                       /\ v \in _nodes \ link
                              => NeighborhoodView(G, v)
                                     = NeighborhoodView(pre, v)
                /\ NeighborhoodView(G, n)
                       = NeighborhoodView(pre, n) \cup {other}
                /\ NeighborhoodView(G, other)
                       = NeighborhoodView(pre, other) \cup {other, n}

\* The assignment of a neighborhood that the recorded call made has met its
\* preconditions: the node is in the graph and in the set, and so is every
\* member of the set.
SetNeighborhoodApplies ==
    /\ op.name = "NodeView.neighborhood="
    /\ op.node \in pre.nodes
    /\ op.node \in arg
    /\ arg \subseteq pre.nodes

\* C15: assigning the set N to NodeView(n).neighborhood changes nothing when n
\* is not in the graph; raises and changes nothing when n is in the graph and
\* not in N; and when n and every member of N are in the graph and n is in N,
\* the neighborhood of n is N afterwards, the incident links of n are the links
\* of n with the other members of N, and the links that do not touch n are as
\* they were.
C15_SetNeighborhood ==
    op.name = "NodeView.neighborhood="
    => /\ op.node \notin pre.nodes => (err = "none" /\ G = pre)
       /\ (op.node \in pre.nodes /\ op.node \notin arg)
              => (err # "none" /\ G = pre)
       /\ SetNeighborhoodApplies
              => /\ err = "none"
                 /\ NeighborhoodView(G, op.node) = arg
                 /\ NodeLinksView(G, op.node)
                        = {Link(op.node, m) : m \in arg \ {op.node}}
                 /\ {l \in _links : op.node \notin l}
                        = {l \in pre.links : op.node \notin l}

\* The neighborhood of a node has been assigned: a link of the node is gone, a
\* new one is there, and a link that does not touch the node is kept.
C15_Witness ==
    /\ SetNeighborhoodApplies
    /\ err = "none"
    /\ NodeLinksView(pre, op.node) \ NodeLinksView(G, op.node) # {}
    /\ NodeLinksView(G, op.node) \ NodeLinksView(pre, op.node) # {}
    /\ \E l \in _links : op.node \notin l

\* C16: when NeighborhoodView.add, the assignment of NodeView.links, of
\* NodeView.neighborhood or of Graph.links raises, the four indices are as
\* they were before the call.
C16_ViewMutationsAreTransactional ==
    (/\ op.name \in {"NeighborhoodView.add", "NodeView.links=",
                     "NodeView.neighborhood=", "Graph.links="}
     /\ err # "none")
    => G = pre

----------------------------------------------------------------------------
\* The sequence c is a pair of two distinct values.
WellFormed(c) == Len(c) = 2 /\ Cardinality({c[i] : i \in DOMAIN c}) = 2

\* C17: candidate in graph.links never raises; it returns false for every
\* collection that is not a pair of two distinct values, and for such a pair
\* it returns true exactly when the link of the two is in the link set.
C17_MembershipNeverRaises ==
    op.name = "LinksView.__contains__"
    => /\ err = "none"
       /\ ret = {IF WellFormed(arg) THEN Link(arg[1], arg[2]) \in _links
                 ELSE FALSE}

====
